---- MODULE Spec2Model ----
(***************************************************************************)
(* GoogleTrendsAPI (src/googleTrendsAPI/googleTrends.py): the client's     *)
(* instance fields, the login of _connect, the response decoder _get_data, *)
(* the widget resolver build_payload/_tokens, the data fetchers and the    *)
(* three operations without token, as a state machine whose steps are      *)
(* whole method calls on one client instance; in SpecRace the steps are    *)
(* the statements of two calls that run in two threads.                    *)
(*                                                                         *)
(* Python values are modelled as follows.  A dict is a function whose      *)
(* domain is its set of keys.  A JSON scalar that the code converts is a   *)
(* tagged record (JInt, JStr, JList, JNull); a string that the code parses *)
(* is the sequence of its characters.  An exception is the value of the    *)
(* field exc of a call's outcome.                                          *)
(***************************************************************************)
EXTENDS Integers, Sequences, FiniteSets, TLC

VARIABLES
    username, password,             \* self.username, self.password
    custom_useragent,               \* self.custom_useragent
    tz, hl, geo,                    \* self.tz, self.hl, self.geo
    kw_list,                        \* self.kw_list
    interest_over_time_widget,      \* self.interest_over_time_widget
    interest_by_region_widget,      \* self.interest_by_region_widget
    related_queries_widget_list,    \* self.related_queries_widget_list
    nexplore,                       \* history: explore responses received so far
    nresolved,                      \* history: build_payload calls that returned
    call,                           \* history: the most recent call and its arguments
    sent,                           \* history: the requests that call issued, in order
    response,                       \* history: the last response that call received
    outcome,                        \* history: how that call ended (exc, and its result)
    threads                         \* calls in flight: their position and local variables

vars == <<username, password, custom_useragent, tz, hl, geo, kw_list, interest_over_time_widget,
          interest_by_region_widget, related_queries_widget_list,
          nexplore, nresolved, call, sent, response, outcome, threads>>

widgetSet == <<interest_over_time_widget, interest_by_region_widget,
               related_queries_widget_list>>

-----------------------------------------------------------------------------
(* Bounds of the model *)

MaxWidgets == 3      \* longest widget array of an explore response (SpecResolve)
MaxSessionWidgets == 2   \* the same, where the fetchers run too (Spec)
MaxResolves == 2     \* build_payload calls in one behaviour
MaxEntries == 1      \* longest ranked / timeline / geo list of a response (SpecFetch)

-----------------------------------------------------------------------------
(* Python dicts and the exceptions of the operations on them *)

EmptyDict == [k \in {} |-> 0]
HasKey(d, k) == k \in DOMAIN d
Del(d, k) == [x \in DOMAIN d \ {k} |-> d[x]]
Put(d, k, v) == [x \in DOMAIN d \cup {k} |-> IF x = k THEN v ELSE d[x]]

Ok(v) == [exc |-> "none", value |-> v]
Raise(e) == [exc |-> e]
IsOk(r) == r.exc = "none"

\* json.dumps: the text of a value; two texts are equal iff the values are
Dumps(v) == [json_text_of |-> v]

-----------------------------------------------------------------------------
(* JSON values the code converts, and Python's int() and x[0] on them *)

JInt(i) == [ty |-> "int", i |-> i]
JStr(s) == [ty |-> "str", s |-> s]
JList(l) == [ty |-> "list", l |-> l]
JNull == [ty |-> "null"]

DigitChars == {"0", "1", "2", "3", "4", "5", "6", "7", "8", "9"}
DigitValue(c) ==
    CASE c = "0" -> 0 [] c = "1" -> 1 [] c = "2" -> 2 [] c = "3" -> 3 [] c = "4" -> 4
      [] c = "5" -> 5 [] c = "6" -> 6 [] c = "7" -> 7 [] c = "8" -> 8 [] c = "9" -> 9

RECURSIVE DigitsValue(_)
DigitsValue(s) ==
    IF s = <<>> THEN 0
    ELSE DigitsValue(SubSeq(s, 1, Len(s) - 1)) * 10 + DigitValue(s[Len(s)])

IsDigits(s) == Len(s) > 0 /\ \A i \in 1..Len(s) : s[i] \in DigitChars

\* int(s) for a string: an optional sign, then decimal digits
IntOfChars(s) ==
    IF IsDigits(s) THEN Ok(DigitsValue(s))
    ELSE IF Len(s) > 1 /\ s[1] \in {"+", "-"} /\ IsDigits(Tail(s))
    THEN Ok(IF s[1] = "-" THEN 0 - DigitsValue(Tail(s)) ELSE DigitsValue(Tail(s)))
    ELSE Raise("ValueError")

\* int(x)
PyInt(x) ==
    CASE x.ty = "int" -> Ok(x.i)
      [] x.ty = "str" -> IntOfChars(x.s)
      [] OTHER -> Raise("TypeError")

\* x[0]
PyFirst(x) ==
    CASE x.ty = "list" -> IF x.l = <<>> THEN Raise("IndexError") ELSE Ok(x.l[1])
      [] x.ty = "str" -> IF x.s = <<>> THEN Raise("IndexError") ELSE Ok(JStr(<<x.s[1]>>))
      [] OTHER -> Raise("TypeError")

\* a `for d in records:` loop whose body changes d in place, given the
\* outcome of the body for each record: the first exception in list order
\* ends the loop, otherwise every record is cleaned
CleanEach(cleaned) ==
    IF \E i \in 1..Len(cleaned) : ~IsOk(cleaned[i])
    THEN cleaned[CHOOSE i \in 1..Len(cleaned) :
                    /\ ~IsOk(cleaned[i])
                    /\ \A j \in 1..(i - 1) : IsOk(cleaned[j])]
    ELSE Ok([i \in 1..Len(cleaned) |-> cleaned[i].value])

-----------------------------------------------------------------------------
(* Class constants *)

GET_METHOD == "get"
POST_METHOD == "post"
LOGIN_URL == "https://accounts.google.com/ServiceLogin"
AUTH_URL == "https://accounts.google.com/ServiceLoginAuth"
GENERAL_URL == "https://www.google.com/trends/api/explore"
INTEREST_OVER_TIME_URL == "https://www.google.com/trends/api/widgetdata/multiline"
INTEREST_BY_REGION_URL == "https://www.google.com/trends/api/widgetdata/comparedgeo"
RELATED_QUERIES_URL == "https://www.google.com/trends/api/widgetdata/relatedsearches"
TRENDING_SEARCHES_URL == "https://trends.google.com/trends/hottrends/hotItems"
TOP_CHARTS_URL == "https://trends.google.com/trends/topcharts/chart"
SUGGESTIONS_URL == "https://www.google.com/trends/api/autocomplete/"

WidgetDataUrls == {INTEREST_OVER_TIME_URL, INTEREST_BY_REGION_URL, RELATED_QUERIES_URL}

TitleOverTime == "Interest over time"
TitleRegion == "Interest by region"
TitleSubregion == "Interest by subregion"
TitleRelated == "Related queries"
TitleOther == "Related topics"
Titles == {TitleOverTime, TitleRegion, TitleSubregion, TitleRelated, TitleOther}
RegionTitles == {TitleRegion, TitleSubregion}

TrimExplore == 4
TrimWidgetData == 5
TrimDefault == 0
TrimSuggestions == 5

-----------------------------------------------------------------------------
(* HTTP responses.  A Content-Type header value is a sequence of pieces of   *)
(* text; a body is `junk` characters of padding, `ws` characters of white   *)
(* space and then either the text of the JSON value `json` or no JSON.      *)

CtJson == <<"application/", "json">>
CtJsonCharset == <<"application/", "json", "; charset=utf-8">>
CtJavascript == <<"application/", "javascript">>
CtTextJavascript == <<"text/", "javascript", "; charset=UTF-8">>
CtHtml == <<"text/", "html", "; charset=utf-8">>
CtJsonSeq == <<"application/", "json", "-seq">>

NotJson == [not_json |-> TRUE]

Response(hdrs, code, j, w, doc) ==
    [headers |-> hdrs, status_code |-> code, junk |-> j, ws |-> w, json |-> doc]
Headers(ct) == [k \in {"Content-Type"} |-> ct]
JsonResponse(trim, doc) == Response(Headers(CtJson), 200, trim, 1, doc)
HtmlResponse == Response(Headers(CtHtml), 400, 0, 0, NotJson)

\* needle in hay, for Python strings
SubstringOf(needle, hay) ==
    \E i \in 0..(Len(hay) - Len(needle)) : SubSeq(hay, i + 1, i + Len(needle)) = needle

\* response.text[trim_chars:] handed to json.loads: the padding must be gone
\* and nothing of the JSON text cut off; leading white space is skipped
Loads(r, trim_chars) ==
    IF r.json # NotJson /\ r.junk <= trim_chars /\ trim_chars <= r.junk + r.ws
    THEN Ok(r.json)
    ELSE Raise("ValueError")

AcceptedContentType(ct) ==
    \/ SubstringOf(<<"application/", "json">>, ct)
    \/ SubstringOf(<<"application/", "javascript">>, ct)
    \/ SubstringOf(<<"text/", "javascript">>, ct)

\* _get_data after the request: the response r has arrived
get_data(r, trim_chars) ==
    IF ~HasKey(r.headers, "Content-Type") THEN Raise("KeyError")
    ELSE IF AcceptedContentType(r.headers["Content-Type"]) THEN Loads(r, trim_chars)
    ELSE [exc |-> "ResponseError", response |-> r]

Request(method, url, payload) == [method |-> method, url |-> url, payload |-> payload]

-----------------------------------------------------------------------------
(* Widgets of an explore response.  The service signs one token per widget  *)
(* of one response: gen is the response, idx the widget's place in it.      *)

Keywords == <<"christmas shirt", "iron">>
KwLists == {<<Keywords[1]>>, <<Keywords[1], Keywords[2]>>}
Geos == {"", "US"}
Resolutions == {"COUNTRY", "CITY"}

KeywordAt(i) == Keywords[((i - 1) % Len(Keywords)) + 1]

RequestOf(title, i) ==
    IF title \in RegionTitles
    THEN [comparisonItem |-> "items", resolution |-> "REGION"]
    ELSE IF title = TitleRelated
    THEN [restriction |->
           [complexKeywordsRestriction |->
             [keyword |-> <<[type |-> "BROAD", value |-> KeywordAt(i)]>>]]]
    ELSE [comparisonItem |-> "items"]

Widget(title, gen, i) ==
    [title |-> title, token |-> [gen |-> gen, idx |-> i], request |-> RequestOf(title, i)]

WidgetArrays(gen, titles, longest) ==
    UNION { { [i \in 1..n |-> Widget(t[i], gen, i)] : t \in [1..n -> titles] }
            : n \in 0..longest }

ExploreResponsesOf(arrays) ==
    { JsonResponse(TrimExplore, [widgets |-> a]) : a \in arrays }
    \cup { JsonResponse(TrimExplore, [error |-> "no widgets"]), HtmlResponse }

SessionTitles == {TitleOverTime, TitleRegion, TitleRelated}
ExploreResponses == [gen \in 1..(MaxResolves + 1) |->
                        ExploreResponsesOf(WidgetArrays(gen, Titles, MaxWidgets))]
SessionExploreResponses == [gen \in 1..(MaxResolves + 1) |->
                        ExploreResponsesOf(WidgetArrays(gen, SessionTitles, MaxSessionWidgets))]

-----------------------------------------------------------------------------
(* build_payload and _tokens *)

TokenPayload(kws, cat, timeframe, g, gprop) ==
    [hl |-> hl, tz |-> tz,
     req |-> Dumps([comparisonItem |->
                       [i \in 1..Len(kws) |-> [keyword |-> kws[i], time |-> timeframe, geo |-> g]],
                    category |-> cat]),
     property |-> gprop]

\* the resolver's working state: the three fields and first_region_token
ResolverState(iot, ibr, rql, first) ==
    [iot |-> iot, ibr |-> ibr, rql |-> rql, first_region_token |-> first]

ClearRelatedStale(st) == st
ClearRelated(st) == [st EXCEPT !.rql = <<>>]

\* the first 'Interest over time' widget of a response is kept
StepOverTimeFirstWins(st, widget) ==
    IF widget.title = TitleOverTime
          /\ (~HasKey(st.iot, "token") \/ st.iot.token.gen # widget.token.gen)
    THEN [st EXCEPT !.iot = widget]
    ELSE st
\* an update in place: the new token is written into the stored widget
StepOverTimeKeepTemplate(st, widget) ==
    IF widget.title = TitleOverTime
    THEN [st EXCEPT !.iot = IF HasKey(@, "request")
                             THEN [widget EXCEPT !.request = st.iot.request]
                             ELSE widget]
    ELSE st
\* lines 152-153
StepOverTime(st, widget) ==
    IF widget.title = TitleOverTime THEN [st EXCEPT !.iot = widget] ELSE st

StepRegionLastWins(st, widget) ==
    IF widget.title = TitleRegion
    THEN [st EXCEPT !.ibr = widget, !.first_region_token = FALSE]
    ELSE st
StepRegion(st, widget) ==
    IF widget.title = TitleRegion /\ st.first_region_token
    THEN [st EXCEPT !.ibr = widget, !.first_region_token = FALSE]
    ELSE st

StepSubregion(st, widget) ==
    IF widget.title = TitleSubregion /\ st.first_region_token
    THEN [st EXCEPT !.ibr = widget, !.first_region_token = FALSE]
    ELSE st

StepRelated(st, widget) ==
    IF widget.title = TitleRelated THEN [st EXCEPT !.rql = Append(@, widget)] ELSE st

RECURSIVE AssignRequests(_, _, _)
AssignRequests(widget_dict, i, st) ==
    IF i > Len(widget_dict) THEN st
    ELSE AssignRequests(widget_dict, i + 1,
            StepRelated(StepSubregion(StepRegion(StepOverTime(st, widget_dict[i]),
                                                 widget_dict[i]),
                                      widget_dict[i]),
                        widget_dict[i]))

\* a resolver that empties the related-queries list before it asks
tokens_clear_first(before, r) ==
    LET data == get_data(r, TrimExplore)
    IN  IF ~IsOk(data) THEN [out |-> data, st |-> ClearRelated(before)]
        ELSE IF ~HasKey(data.value, "widgets")
        THEN [out |-> Raise("KeyError"), st |-> ClearRelated(before)]
        ELSE [out |-> Ok("None"),
              st |-> AssignRequests(data.value.widgets, 1, ClearRelated(before))]

\* _tokens once the explore response r has arrived: the outcome and the
\* three fields as the call leaves them
tokens_from(before, r) ==
    LET data == get_data(r, TrimExplore)
    IN  IF ~IsOk(data) THEN [out |-> data, st |-> before]
        ELSE IF ~HasKey(data.value, "widgets")
        THEN [out |-> Raise("KeyError"), st |-> before]
        ELSE [out |-> Ok("None"),
              st |-> AssignRequests(data.value.widgets, 1, ClearRelated(before))]

tokens(r) ==
    tokens_from(ResolverState(interest_over_time_widget, interest_by_region_widget,
                              related_queries_widget_list, TRUE), r)

build_payload(kws, cat, timeframe, g, gprop, r) ==
    \E t \in {tokens(r)} :
        /\ nexplore < MaxResolves
        /\ kw_list' = kws
        /\ geo' = g
        /\ interest_over_time_widget' = t.st.iot
        /\ interest_by_region_widget' = t.st.ibr
        /\ related_queries_widget_list' = t.st.rql
        /\ nexplore' = nexplore + 1
        /\ nresolved' = IF IsOk(t.out) THEN nresolved + 1 ELSE nresolved
        /\ call' = [op |-> "build_payload", kw_list |-> kws, geo |-> g]
        /\ sent' = <<Request(GET_METHOD, GENERAL_URL,
                             TokenPayload(kws, cat, timeframe, g, gprop))>>
        /\ response' = r
        /\ outcome' = t.out
        /\ UNCHANGED <<username, password, custom_useragent, tz, hl, threads>>

-----------------------------------------------------------------------------
(* Widget-data responses *)

Chars100 == <<"1", "0", "0">>
Chars58 == <<"5", "8">>
CharsRising == <<"+", "2", "5", "0", "%">>
CharsEpoch == <<"1", "4", "7", "1", "1", "3", "2", "8", "0", "0">>

Lists(S) == UNION { [1..n -> S] : n \in 0..MaxEntries }

TimelineRecord(time, value) ==
    [time |-> time, formattedTime |-> "Aug 14 - Aug 20 2016", value |-> value,
     formattedValue |-> JList(<<JStr(Chars58)>>)]
TimelineDoc(records) == [default |-> [timelineData |-> records]]
GoodTimelineDoc == TimelineDoc(<<TimelineRecord(JStr(CharsEpoch), JList(<<JStr(Chars58)>>))>>)

GeoRecord(value) ==
    [geoCode |-> "US-AL", geoName |-> "Alabama", value |-> value,
     formattedValue |-> JList(<<JStr(Chars100)>>), maxValueIndex |-> JInt(0),
     coordinates |-> "lat,lng"]
GeoDoc(records) == [default |-> [geoMapData |-> records]]
GoodGeoDoc == GeoDoc(<<GeoRecord(JList(<<JInt(100)>>))>>)

RankedEntry(value, formatted) ==
    [query |-> "christmas shirt ideas", value |-> value,
     formattedValue |-> JStr(formatted), link |-> "/trends/explore?q=christmas"]
RankedDoc(top, rising) ==
    [default |-> [rankedList |-> <<[rankedKeyword |-> top], [rankedKeyword |-> rising]>>]]
GoodRankedDoc == RankedDoc(<<RankedEntry(JInt(100), Chars100)>>,
                           <<RankedEntry(JInt(250), CharsRising)>>)

\* what the service may answer a widget-data request whose good answer is doc
Answers(doc) == {JsonResponse(TrimWidgetData, doc), HtmlResponse}

\* the same with every Content-Type and body layout
ContentTypes == {CtJson, CtJsonCharset, CtJavascript, CtTextJavascript, CtHtml, CtJsonSeq}
HeaderSets == {Headers(ct) : ct \in ContentTypes} \cup {EmptyDict}
DecodeAnswers(doc) ==
    UNION { { Response(h, 200, TrimWidgetData, 1, doc), Response(h, 200, TrimWidgetData, 0, doc),
              Response(h, 200, TrimExplore, 0, doc), Response(h, 200, 0, 0, doc),
              Response(h, 404, 0, 0, NotJson) } : h \in HeaderSets }

CharsBreakout == <<"B", "r", "e", "a", "k", "o", "u", "t">>

TimelineRecords ==
    { TimelineRecord(JStr(CharsEpoch), v) :
        v \in {JList(<<JStr(Chars58)>>), JList(<<JInt(58)>>), JInt(58), JStr(Chars58)} }
    \cup { TimelineRecord(JInt(DigitsValue(CharsEpoch)), JList(<<JInt(58)>>)),
           Del(TimelineRecord(JStr(CharsEpoch), JList(<<JInt(58)>>)), "formattedValue") }
TimelineAnswers ==
    { JsonResponse(TrimWidgetData, TimelineDoc(l)) : l \in Lists(TimelineRecords) }
    \cup DecodeAnswers(GoodTimelineDoc)

GeoRecords ==
    { GeoRecord(v) : v \in {JList(<<JInt(100)>>), JList(<<JStr(Chars100)>>), JInt(100)} }
    \cup { Del(GeoRecord(JList(<<JInt(100)>>)), "coordinates") }
GeoAnswers ==
    { JsonResponse(TrimWidgetData, GeoDoc(l)) : l \in Lists(GeoRecords) }
    \cup DecodeAnswers(GoodGeoDoc)

TopEntries ==
    { RankedEntry(v, Chars100) :
        v \in {JInt(100), JStr(Chars100), JList(<<JStr(Chars100)>>), JNull} }
RisingEntries ==
    { RankedEntry(JNull, CharsRising), RankedEntry(JInt(250), CharsBreakout) }
RankedAnswers ==
    { JsonResponse(TrimWidgetData, RankedDoc(top, rising)) :
        top \in Lists(TopEntries), rising \in Lists(RisingEntries) }
    \cup { JsonResponse(TrimWidgetData,
              [default |-> [rankedList |-> <<[rankedKeyword |-> <<>>]>>]]),
           JsonResponse(TrimWidgetData,
              [default |-> [rankedList |-> Append(GoodRankedDoc.default.rankedList,
                                                  [rankedKeyword |-> <<>>])]]) }
    \cup DecodeAnswers(GoodRankedDoc)

-----------------------------------------------------------------------------
(* The data fetchers.  Each ...Call is the method as a function of the      *)
(* response it receives: the requests it sends, the response it got (none   *)
(* when it sent nothing), its outcome, and the widget fields it assigns.    *)

NoResponse == NotJson

\* a payload that takes its token from the over-time widget whatever the role
WidgetPayloadOverTimeToken(widget) ==
    [req |-> Dumps(widget.request),
     token |-> IF HasKey(interest_over_time_widget, "token")
               THEN interest_over_time_widget.token ELSE widget.token,
     tz |-> tz]
\* lines 168-173, 200-202, 234-236
WidgetPayload(widget) ==
    [req |-> Dumps(widget.request), token |-> widget.token, tz |-> tz]

CleanTimelineKeepTime(d) ==
    IF ~HasKey(d, "formattedValue") THEN Raise("KeyError")
    ELSE IF ~HasKey(d, "value") THEN Raise("KeyError")
    ELSE IF ~IsOk(PyFirst(d.value)) THEN PyFirst(d.value)
    ELSE IF ~IsOk(PyInt(PyFirst(d.value).value)) THEN PyInt(PyFirst(d.value).value)
    ELSE Ok(Put(Del(d, "formattedValue"),
                "value", JInt(PyInt(PyFirst(d.value).value).value)))
\* lines 184-187
CleanTimeline(d) ==
    IF ~HasKey(d, "formattedValue") THEN Raise("KeyError")
    ELSE IF ~HasKey(d, "time") THEN Raise("KeyError")
    ELSE IF ~IsOk(PyInt(d.time)) THEN PyInt(d.time)
    ELSE IF ~HasKey(d, "value") THEN Raise("KeyError")
    ELSE IF ~IsOk(PyFirst(d.value)) THEN PyFirst(d.value)
    ELSE IF ~IsOk(PyInt(PyFirst(d.value).value)) THEN PyInt(PyFirst(d.value).value)
    ELSE Ok(Put(Put(Del(d, "formattedValue"), "time", JInt(PyInt(d.time).value)),
                "value", JInt(PyInt(PyFirst(d.value).value).value)))

CleanTimelineAll(records) == [i \in 1..Len(records) |-> CleanTimeline(records[i])]

interest_over_time_call(r) ==
    LET widget == interest_over_time_widget
        data == get_data(r, TrimWidgetData)
    IN  IF ~HasKey(widget, "request") \/ ~HasKey(widget, "token")
        THEN [sent |-> <<>>, got |-> NoResponse, out |-> Raise("KeyError")]
        ELSE [sent |-> <<Request(GET_METHOD, INTEREST_OVER_TIME_URL, WidgetPayload(widget))>>,
              got |-> r,
              out |-> IF ~IsOk(data) THEN data
                      ELSE IF ~HasKey(data.value, "default") THEN Raise("KeyError")
                      ELSE IF ~HasKey(data.value.default, "timelineData") THEN Raise("KeyError")
                      ELSE CleanEach(CleanTimelineAll(data.value.default.timelineData))]

interest_over_time(r) ==
    \E c \in {interest_over_time_call(r)} :
        /\ call' = [op |-> "interest_over_time"]
        /\ sent' = c.sent
        /\ response' = c.got
        /\ outcome' = c.out
        /\ UNCHANGED <<username, password, custom_useragent, tz, hl, geo, kw_list,
                       interest_over_time_widget,
                       interest_by_region_widget, related_queries_widget_list,
                       nexplore, nresolved, threads>>

CleanGeo(d) ==
    IF ~HasKey(d, "maxValueIndex") THEN Raise("KeyError")
    ELSE IF ~HasKey(d, "coordinates") THEN Raise("KeyError")
    ELSE IF ~HasKey(d, "formattedValue") THEN Raise("KeyError")
    ELSE IF ~HasKey(d, "value") THEN Raise("KeyError")
    ELSE IF ~IsOk(PyFirst(d.value)) THEN PyFirst(d.value)
    ELSE IF ~IsOk(PyInt(PyFirst(d.value).value)) THEN PyInt(PyFirst(d.value).value)
    ELSE Ok(Put(Del(Del(Del(d, "maxValueIndex"), "coordinates"), "formattedValue"),
                "value", JInt(PyInt(PyFirst(d.value).value).value)))

CleanGeoAll(records) == [i \in 1..Len(records) |-> CleanGeo(records[i])]

\* lines 197-198: the stored widget's own request dict is assigned to
PatchResolution(widget, resolution) ==
    IF geo = ""
    THEN [widget EXCEPT !.request = Put(@, "resolution", resolution)]
    ELSE widget

interest_by_region_call(resolution, r) ==
    LET stored == interest_by_region_widget
        data == get_data(r, TrimWidgetData)
    IN  IF ~HasKey(stored, "request")
        THEN [sent |-> <<>>, got |-> NoResponse, out |-> Raise("KeyError"), widget |-> stored]
        ELSE LET widget == PatchResolution(stored, resolution)
             IN  IF ~HasKey(widget, "token")
                 THEN [sent |-> <<>>, got |-> NoResponse, out |-> Raise("KeyError"),
                       widget |-> widget]
                 ELSE [sent |-> <<Request(GET_METHOD, INTEREST_BY_REGION_URL,
                                          WidgetPayload(widget))>>,
                       got |-> r,
                       out |-> IF ~IsOk(data) THEN data
                               ELSE IF ~HasKey(data.value, "default") THEN Raise("KeyError")
                               ELSE IF ~HasKey(data.value.default, "geoMapData")
                               THEN Raise("KeyError")
                               ELSE CleanEach(CleanGeoAll(data.value.default.geoMapData)),
                       widget |-> widget]

interest_by_region(resolution, r) ==
    \E c \in {interest_by_region_call(resolution, r)} :
        /\ interest_by_region_widget' = c.widget
        /\ call' = [op |-> "interest_by_region", resolution |-> resolution]
        /\ sent' = c.sent
        /\ response' = c.got
        /\ outcome' = c.out
        /\ UNCHANGED <<username, password, custom_useragent, tz, hl, geo, kw_list,
                       interest_over_time_widget,
                       related_queries_widget_list, nexplore, nresolved, threads>>

\* request_json['request']['restriction']['complexKeywordsRestriction']['keyword'][0]['value']
KeywordOf(request_json) ==
    IF ~HasKey(request_json, "request") THEN Raise("KeyError")
    ELSE IF ~HasKey(request_json.request, "restriction") THEN Raise("KeyError")
    ELSE IF ~HasKey(request_json.request.restriction, "complexKeywordsRestriction")
    THEN Raise("KeyError")
    ELSE IF ~HasKey(request_json.request.restriction.complexKeywordsRestriction, "keyword")
    THEN Raise("KeyError")
    ELSE IF request_json.request.restriction.complexKeywordsRestriction.keyword = <<>>
    THEN Raise("IndexError")
    ELSE Ok(request_json.request.restriction.complexKeywordsRestriction.keyword[1].value)

\* lines 247-250
CleanTop(kw) ==
    IF ~HasKey(kw, "value") THEN Raise("KeyError")
    ELSE IF ~IsOk(PyInt(kw.value)) THEN PyInt(kw.value)
    ELSE IF ~HasKey(kw, "link") THEN Raise("KeyError")
    ELSE IF ~HasKey(kw, "formattedValue") THEN Raise("KeyError")
    ELSE Ok(Del(Del(Put(kw, "value", JInt(PyInt(kw.value).value)), "link"),
                "formattedValue"))

CleanTopAll(records) == [i \in 1..Len(records) |-> CleanTop(records[i])]

CleanRisingKeepValue(kw) ==
    IF ~HasKey(kw, "link") THEN Raise("KeyError")
    ELSE IF ~HasKey(kw, "formattedValue") THEN Raise("KeyError")
    ELSE Ok(Del(Del(kw, "link"), "formattedValue"))
\* lines 252-255
CleanRising(kw) ==
    IF ~HasKey(kw, "link") THEN Raise("KeyError")
    ELSE IF ~HasKey(kw, "formattedValue") THEN Raise("KeyError")
    ELSE Ok(Del(Put(Del(kw, "link"), "value", kw.formattedValue), "formattedValue"))

CleanRisingAll(records) == [i \in 1..Len(records) |-> CleanRising(records[i])]

\* lines 257-258
RenameRising(ranked, cleaned) == Del(Put(ranked, "risingKeywords", cleaned), "rankedKeyword")

\* lines 246-260 on the decoded rankedList
CleanRanked(rankedList) ==
    IF Len(rankedList) < 1 THEN Raise("IndexError")
    ELSE IF ~HasKey(rankedList[1], "rankedKeyword") THEN Raise("KeyError")
    ELSE IF ~IsOk(CleanEach(CleanTopAll(rankedList[1].rankedKeyword)))
    THEN CleanEach(CleanTopAll(rankedList[1].rankedKeyword))
    ELSE IF Len(rankedList) < 2 THEN Raise("IndexError")
    ELSE IF ~HasKey(rankedList[2], "rankedKeyword") THEN Raise("KeyError")
    ELSE IF ~IsOk(CleanEach(CleanRisingAll(rankedList[2].rankedKeyword)))
    THEN CleanEach(CleanRisingAll(rankedList[2].rankedKeyword))
    ELSE Ok([i \in 1..Len(rankedList) |->
              IF i = 1
              THEN Put(rankedList[1], "rankedKeyword",
                       CleanEach(CleanTopAll(rankedList[1].rankedKeyword)).value)
              ELSE IF i = 2
              THEN RenameRising(rankedList[2],
                                CleanEach(CleanRisingAll(rankedList[2].rankedKeyword)).value)
              ELSE rankedList[i]])

LoopOverAll(widget_list) == widget_list
\* the widgets the loop body of lines 230-260 runs for: the return of line 260
\* ends the loop in its first iteration
LoopUntilReturn(widget_list) ==
    IF widget_list = <<>> THEN <<>> ELSE <<widget_list[1]>>

related_queries_call(r) ==
    LET visited == LoopUntilReturn(related_queries_widget_list)
        data == get_data(r, TrimWidgetData)
    IN  IF visited = <<>>
        THEN [sent |-> <<>>, got |-> NoResponse, out |-> Ok("None")]
        ELSE IF ~IsOk(KeywordOf(visited[1]))
        THEN [sent |-> <<>>, got |-> NoResponse, out |-> KeywordOf(visited[1])]
        ELSE IF ~HasKey(visited[1], "token")
        THEN [sent |-> <<>>, got |-> NoResponse, out |-> Raise("KeyError")]
        ELSE [sent |-> [i \in 1..Len(visited) |->
                          Request(GET_METHOD, RELATED_QUERIES_URL, WidgetPayload(visited[i]))],
              got |-> r,
              out |-> IF ~IsOk(data) THEN data
                      ELSE IF ~HasKey(data.value, "default") THEN Raise("KeyError")
                      ELSE IF ~HasKey(data.value.default, "rankedList") THEN Raise("KeyError")
                      ELSE CleanRanked(data.value.default.rankedList)]

related_queries(r) ==
    \E c \in {related_queries_call(r)} :
        /\ call' = [op |-> "related_queries"]
        /\ sent' = c.sent
        /\ response' = c.got
        /\ outcome' = c.out
        /\ UNCHANGED <<username, password, custom_useragent, tz, hl, geo, kw_list,
                       interest_over_time_widget,
                       interest_by_region_widget, related_queries_widget_list,
                       nexplore, nresolved, threads>>

-----------------------------------------------------------------------------
(* trending_searches, top_charts and suggestions *)

\* line 266
forms == [data |-> [ajax |-> 1, pn |-> "p1", htd |-> "", htv |-> "l"]]

GoodTrendingDoc == [trendsByDateList |-> <<[date |-> "20161114", trendsList |-> <<>>]>>]
GoodChartDoc == [data |-> [entityList |-> <<[title |-> "Actors"]>>]]
GoodTopicsDoc == [default |-> [topics |-> <<[mid |-> "/m/025rs2z", title |-> "Iron"]>>]]

\* a client that asks again when it is turned away
trending_searches_call_retrying(r) ==
    LET data == get_data(r, TrimDefault)
        request == Request(POST_METHOD, TRENDING_SEARCHES_URL, forms)
    IN  [sent |-> IF IsOk(data) THEN <<request>> ELSE <<request, request>>,
         got |-> r,
         out |-> IF ~IsOk(data) THEN data
                 ELSE IF ~HasKey(data.value, "trendsByDateList") THEN Raise("KeyError")
                 ELSE Ok(data.value.trendsByDateList)]
\* lines 262-271
trending_searches_call(r) ==
    LET data == get_data(r, TrimDefault)
    IN  [sent |-> <<Request(POST_METHOD, TRENDING_SEARCHES_URL, forms)>>,
         got |-> r,
         out |-> IF ~IsOk(data) THEN data
                 ELSE IF ~HasKey(data.value, "trendsByDateList") THEN Raise("KeyError")
                 ELSE Ok(data.value.trendsByDateList)]

trending_searches(r) ==
    LET c == trending_searches_call(r) IN
        /\ call' = [op |-> "trending_searches"]
        /\ sent' = c.sent
        /\ response' = c.got
        /\ outcome' = c.out
        /\ UNCHANGED <<username, password, custom_useragent, tz, hl, geo, kw_list,
                       interest_over_time_widget,
                       interest_by_region_widget, related_queries_widget_list,
                       nexplore, nresolved, threads>>

chart_payload_with_token(date, cid, g, cat) ==
    [params |-> [ajax |-> 1, lp |-> 1, geo |-> g, date |-> date, cat |-> cat, cid |-> cid],
     token |-> IF HasKey(interest_by_region_widget, "token")
               THEN interest_by_region_widget.token ELSE [gen |-> 0, idx |-> 0]]
\* line 277
chart_payload(date, cid, g, cat) ==
    [params |-> [ajax |-> 1, lp |-> 1, geo |-> g, date |-> date, cat |-> cat, cid |-> cid]]

\* lines 273-284
top_charts_call(date, cid, g, cat, r) ==
    LET data == get_data(r, TrimDefault)
    IN  [sent |-> <<Request(POST_METHOD, TOP_CHARTS_URL, chart_payload(date, cid, g, cat))>>,
         got |-> r,
         out |-> IF ~IsOk(data) THEN data
                 ELSE IF ~HasKey(data.value, "data") THEN Raise("KeyError")
                 ELSE IF ~HasKey(data.value.data, "entityList") THEN Raise("KeyError")
                 ELSE Ok(data.value.data.entityList)]

top_charts(date, cid, g, cat, r) ==
    LET c == top_charts_call(date, cid, g, cat, r) IN
        /\ call' = [op |-> "top_charts", date |-> date, cid |-> cid, geo |-> g, cat |-> cat]
        /\ sent' = c.sent
        /\ response' = c.got
        /\ outcome' = c.out
        /\ UNCHANGED <<username, password, custom_useragent, tz, hl, geo, kw_list,
                       interest_over_time_widget,
                       interest_by_region_widget, related_queries_widget_list,
                       nexplore, nresolved, threads>>

\* urllib.quote: letters, digits and _.-/ stay, any other character becomes
\* % and its code in hexadecimal
AlwaysSafe ==
    {"a", "b", "c", "d", "e", "f", "g", "h", "i", "j", "k", "l", "m", "n", "o", "p", "q",
     "r", "s", "t", "u", "v", "w", "x", "y", "z", "A", "B", "C", "D", "E", "F", "G", "H",
     "I", "J", "K", "L", "M", "N", "O", "P", "Q", "R", "S", "T", "U", "V", "W", "X", "Y",
     "Z", "_", ".", "-", "/"} \cup DigitChars
PercentCode(c) ==
    CASE c = " " -> "%20" [] c = "&" -> "%26" [] c = "?" -> "%3F" [] c = "#" -> "%23"
      [] c = "%" -> "%25" [] c = "+" -> "%2B"
quote(s) == [i \in 1..Len(s) |-> IF s[i] \in AlwaysSafe THEN s[i] ELSE PercentCode(s[i])]

SuggestionKeywords == {<<"i", "r", "o", "n">>, <<"t", " ", "v", "?">>}

\* lines 286-298: the request goes to SUGGESTIONS_URL + kw_param
suggestions_call(keyword, r) ==
    LET data == get_data(r, TrimSuggestions)
    IN  [sent |-> <<Request(GET_METHOD, SUGGESTIONS_URL,
                            [kw_param |-> quote(keyword), params |-> [hl |-> hl]])>>,
         got |-> r,
         out |-> IF ~IsOk(data) THEN data
                 ELSE IF ~HasKey(data.value, "default") THEN Raise("KeyError")
                 ELSE IF ~HasKey(data.value.default, "topics") THEN Raise("KeyError")
                 ELSE Ok(data.value.default.topics)]

suggestions(keyword, r) ==
    LET c == suggestions_call(keyword, r) IN
        /\ call' = [op |-> "suggestions", keyword |-> keyword]
        /\ sent' = c.sent
        /\ response' = c.got
        /\ outcome' = c.out
        /\ UNCHANGED <<username, password, custom_useragent, tz, hl, geo, kw_list,
                       interest_over_time_widget,
                       interest_by_region_widget, related_queries_widget_list,
                       nexplore, nresolved, threads>>

\* what the three endpoints may answer
OtherAnswers(trim, doc) == {JsonResponse(trim, doc), HtmlResponse}

-----------------------------------------------------------------------------
(* The client after __init__ *)

\* no call is in flight: every method call of Spec, SpecResolve and SpecFetch
\* runs from its first line to its return in one step
IdleResolver ==
    [pc |-> "idle", kws |-> <<>>, g |-> "", widget_dict |-> <<>>, i |-> 0,
     first_region_token |-> TRUE]
IdleFetcher ==
    [pc |-> "idle", resolution |-> "", patch |-> FALSE,
     request |-> EmptyDict, token |-> [gen |-> 0, idx |-> 0], overlapped |-> FALSE]
NoThreads == [resolver |-> IdleResolver, fetcher |-> IdleFetcher]

InitialWidgetPreset == Widget(TitleOverTime, 0, 1)
\* lines 56-57: dict()
InitialWidget == EmptyDict

\* the inputs of the first form of the login page, as BeautifulSoup hands
\* them over: each a dict of its attributes
LoginPages ==
    { <<>>,
      <<[name |-> "GALX", value |-> "t0k"], [name |-> "Email", value |-> ""],
        [name |-> "Passwd"], [value |-> "Sign in"]>>,
      <<[name |-> "Email", value |-> "someone@else"], [name |-> "Passwd", value |-> "x"],
        [name |-> "GALX", value |-> "old"], [name |-> "GALX", value |-> "new"]>> }

\* lines 71-74
RECURSIVE ScrapedInputs(_, _, _)
ScrapedInputs(soup_login, i, form_data) ==
    IF i > Len(soup_login) THEN form_data
    ELSE ScrapedInputs(soup_login, i + 1,
            IF HasKey(soup_login[i], "value") /\ HasKey(soup_login[i], "name")
            THEN Put(form_data, soup_login[i].name, soup_login[i].value)
            ELSE form_data)

\* a form in which what the page says stays
FormDataScrapedWins(google_username, google_password, soup_login) ==
    ScrapedInputs(soup_login, 1,
                  Put(Put(EmptyDict, "Email", google_username), "Passwd", google_password))
\* lines 71-77
FormData(google_username, google_password, soup_login) ==
    Put(Put(ScrapedInputs(soup_login, 1, EmptyDict), "Email", google_username),
        "Passwd", google_password)

\* lines 60-78: the requests of _connect, in order
connect(google_username, google_password, useragent, soup_login) ==
    <<Request(GET_METHOD, LOGIN_URL, [headers |-> useragent]),
      Request(POST_METHOD, AUTH_URL,
              [data |-> FormData(google_username, google_password, soup_login)])>>

\* what the auth endpoint may answer; _connect does not look at it
AuthResponses == {Response(Headers(CtHtml), 200, 0, 0, NotJson), HtmlResponse}

\* lines 34-58: the client that GoogleTrendsAPI(google_username,
\* google_password, geo=g) returns
Constructed(google_username, google_password, g, soup_login, r) ==
    /\ username = google_username
    /\ password = google_password
    /\ custom_useragent = [UserAgent |-> "PyTrends"]
    /\ tz = 360
    /\ hl = "en-US"
    /\ geo = g
    /\ kw_list = <<>>
    /\ interest_over_time_widget = InitialWidget
    /\ interest_by_region_widget = InitialWidget
    /\ related_queries_widget_list = <<>>
    /\ nexplore = 0
    /\ nresolved = 0
    /\ call = [op |-> "__init__"]
    /\ sent = connect(google_username, google_password, [UserAgent |-> "PyTrends"],
                      soup_login)
    /\ response = r
    /\ outcome = Ok("None")
    /\ threads = NoThreads

\* line 303: GoogleTrendsAPI('', ''), and the same with a geography given
Init ==
    \E g \in Geos, soup_login \in LoginPages, r \in AuthResponses :
        Constructed("", "", g, soup_login, r)

Next ==
    \/ \E kws \in KwLists, g \in Geos, r \in SessionExploreResponses[nexplore + 1] :
          build_payload(kws, 0, "today 12-m", g, "", r)
    \/ \E r \in Answers(GoodTimelineDoc) : interest_over_time(r)
    \/ \E resolution \in Resolutions, r \in Answers(GoodGeoDoc) :
          interest_by_region(resolution, r)
    \/ \E r \in Answers(GoodRankedDoc) : related_queries(r)

Spec == Init /\ [][Next]_vars

-----------------------------------------------------------------------------
(* Every operation of the class on one client, from every construction:    *)
(* the credentials, the login page and the auth answer vary, the explore   *)
(* answers are few                                                         *)

Usernames == {"", "user@gmail.com"}
Passwords == {"", "secret"}

InitClient ==
    \E google_username \in Usernames, google_password \in Passwords, g \in Geos,
       soup_login \in LoginPages, r \in AuthResponses :
        Constructed(google_username, google_password, g, soup_login, r)

ClientExploreResponses ==
    [gen \in 1..(MaxResolves + 1) |->
        ExploreResponsesOf({ <<Widget(TitleOverTime, gen, 1), Widget(TitleRegion, gen, 2),
                               Widget(TitleRelated, gen, 3)>>,
                             <<>> })]

NextClient ==
    \/ \E g \in Geos, r \in ClientExploreResponses[nexplore + 1] :
          build_payload(<<Keywords[1]>>, 0, "today 12-m", g, "", r)
    \/ \E r \in Answers(GoodTimelineDoc) : interest_over_time(r)
    \/ \E resolution \in Resolutions, r \in Answers(GoodGeoDoc) :
          interest_by_region(resolution, r)
    \/ \E r \in Answers(GoodRankedDoc) : related_queries(r)
    \/ \E r \in OtherAnswers(TrimDefault, GoodTrendingDoc) : trending_searches(r)
    \/ \E r \in OtherAnswers(TrimDefault, GoodChartDoc) :
          top_charts("201611", "actors", "US", "", r)
    \/ \E keyword \in SuggestionKeywords, r \in OtherAnswers(TrimSuggestions, GoodTopicsDoc) :
          suggestions(keyword, r)

SpecClient == InitClient /\ [][NextClient]_vars

-----------------------------------------------------------------------------
(* The resolver alone, over every widget array up to MaxWidgets, called as  *)
(* line 304 calls it: one keyword and the default arguments                 *)

NextResolve ==
    \E r \in ExploreResponses[nexplore + 1] :
        build_payload(<<Keywords[1]>>, 0, "today 12-m", "", "", r)

SpecResolve == Init /\ [][NextResolve]_vars

-----------------------------------------------------------------------------
(* The fetchers alone, on a client that has resolved one query, over every  *)
(* answer of the widget-data endpoints up to MaxEntries                     *)

FetchArrays ==
    { <<Widget(TitleOverTime, 1, 1), Widget(TitleRegion, 1, 2), Widget(TitleRelated, 1, 3)>>,
      <<Widget(TitleRelated, 1, 1), Widget(TitleRelated, 1, 2), Widget(TitleSubregion, 1, 3)>>,
      <<>> }

InitFetch ==
    \E g \in Geos, a \in FetchArrays :
        LET r == JsonResponse(TrimExplore, [widgets |-> a])
            t == tokens_from(ResolverState(EmptyDict, EmptyDict, <<>>, TRUE), r)
        IN  /\ username = ""
            /\ password = ""
            /\ custom_useragent = [UserAgent |-> "PyTrends"]
            /\ tz = 360
            /\ hl = "en-US"
            /\ geo = g
            /\ kw_list = <<Keywords[1]>>
            /\ interest_over_time_widget = t.st.iot
            /\ interest_by_region_widget = t.st.ibr
            /\ related_queries_widget_list = t.st.rql
            /\ nexplore = 1
            /\ nresolved = 1
            /\ call = [op |-> "build_payload", kw_list |-> <<Keywords[1]>>, geo |-> g]
            /\ sent = <<Request(GET_METHOD, GENERAL_URL,
                                TokenPayload(<<Keywords[1]>>, 0, "today 12-m", g, ""))>>
            /\ response = r
            /\ outcome = t.out
            /\ threads = NoThreads

NextFetch ==
    \/ \E r \in TimelineAnswers : interest_over_time(r)
    \/ \E resolution \in Resolutions, r \in GeoAnswers : interest_by_region(resolution, r)
    \/ \E r \in RankedAnswers : related_queries(r)

SpecFetch == InitFetch /\ [][NextFetch]_vars

-----------------------------------------------------------------------------
(* Two calls in flight on one client: build_payload for a new query in one  *)
(* thread, interest_over_time or interest_by_region in another.  The class  *)
(* has no lock, so the threads interleave between the statements that read  *)
(* or assign an instance field; a step below is one such statement, named   *)
(* after its line.                                                          *)

\* the query of the n-th build_payload call, and the widgets the service
\* answers it with: their request templates repeat the query
RaceQueries == <<<<Keywords[1]>>, <<Keywords[2]>>, <<Keywords[1], Keywords[2]>>,
                 <<Keywords[2], Keywords[1]>>>>
RaceWidget(title, gen, i, g) ==
    [Widget(title, gen, i) EXCEPT
        !.request = Put(@, "comparisonItem", [kw_list |-> RaceQueries[gen], geo |-> g])]
RaceExploreResponses(gen, g) ==
    { JsonResponse(TrimExplore,
          [widgets |-> <<RaceWidget(TitleOverTime, gen, 1, g),
                         RaceWidget(TitleRegion, gen, 2, g)>>]),
      HtmlResponse }

ResolverStep(t) == [t EXCEPT !.fetcher.overlapped = (@ \/ t.fetcher.pc # "idle")]

\* line 116
build_payload_116(g) ==
    /\ threads.resolver.pc = "idle"
    /\ nexplore < MaxResolves
    /\ kw_list' = RaceQueries[nexplore + 1]
    /\ threads' = ResolverStep([threads EXCEPT
                      !.resolver = [IdleResolver EXCEPT !.pc = "117",
                                       !.kws = RaceQueries[nexplore + 1], !.g = g]])
    /\ UNCHANGED <<username, password, custom_useragent, tz, hl, geo,
                   interest_over_time_widget,
                   interest_by_region_widget, related_queries_widget_list,
                   nexplore, nresolved, call, sent, response, outcome>>

\* line 117
build_payload_117 ==
    /\ threads.resolver.pc = "117"
    /\ geo' = threads.resolver.g
    /\ threads' = ResolverStep([threads EXCEPT !.resolver.pc = "139"])
    /\ UNCHANGED <<username, password, custom_useragent, tz, hl, kw_list,
                   interest_over_time_widget,
                   interest_by_region_widget, related_queries_widget_list,
                   nexplore, nresolved, call, sent, response, outcome>>

\* lines 118-144: the explore request, its response r and the decoding
tokens_139(r) ==
    LET data == get_data(r, TrimExplore)
        failed == ~IsOk(data) \/ ~HasKey(data.value, "widgets")
    IN  /\ threads.resolver.pc = "139"
        /\ nexplore' = nexplore + 1
        /\ threads' = ResolverStep(
               IF failed THEN [threads EXCEPT !.resolver = IdleResolver]
               ELSE [threads EXCEPT !.resolver.pc = "149",
                                    !.resolver.widget_dict = data.value.widgets])
        /\ UNCHANGED <<username, password, custom_useragent, tz, hl, geo, kw_list,
                       interest_over_time_widget,
                       interest_by_region_widget, related_queries_widget_list,
                       nresolved, call, sent, response, outcome>>

\* lines 147-149
tokens_149 ==
    /\ threads.resolver.pc = "149"
    /\ related_queries_widget_list' = <<>>
    /\ threads' = ResolverStep([threads EXCEPT !.resolver.pc = "151", !.resolver.i = 1,
                                               !.resolver.first_region_token = TRUE])
    /\ UNCHANGED <<username, password, custom_useragent, tz, hl, geo, kw_list,
                   interest_over_time_widget,
                   interest_by_region_widget, nexplore, nresolved, call, sent, response,
                   outcome>>

\* lines 151-163: one iteration of the loop, or its end and the return
tokens_151 ==
    LET t == threads.resolver
        st == ResolverState(interest_over_time_widget, interest_by_region_widget,
                            related_queries_widget_list, t.first_region_token)
        after == AssignRequests(<<t.widget_dict[t.i]>>, 1, st)
    IN  /\ t.pc = "151"
        /\ IF t.i > Len(t.widget_dict)
           THEN /\ nresolved' = nresolved + 1
                /\ threads' = ResolverStep([threads EXCEPT !.resolver = IdleResolver])
                /\ UNCHANGED <<interest_over_time_widget, interest_by_region_widget,
                               related_queries_widget_list>>
           ELSE /\ interest_over_time_widget' = after.iot
                /\ interest_by_region_widget' = after.ibr
                /\ related_queries_widget_list' = after.rql
                /\ threads' = ResolverStep([threads EXCEPT !.resolver.i = @ + 1,
                                  !.resolver.first_region_token = after.first_region_token])
                /\ UNCHANGED nresolved
        /\ UNCHANGED <<username, password, custom_useragent, tz, hl, geo, kw_list, nexplore, call, sent,
                       response, outcome>>

\* a fetcher that ends with an exception before it sends anything
FetcherRaises(op, e) ==
    /\ call' = [op |-> op]
    /\ sent' = <<>>
    /\ response' = NoResponse
    /\ outcome' = Raise(e)
    /\ threads' = [threads EXCEPT !.fetcher = IdleFetcher]

\* line 169: self.interest_over_time_widget['request']
interest_over_time_169 ==
    /\ threads.fetcher.pc = "idle"
    /\ IF HasKey(interest_over_time_widget, "request")
       THEN /\ threads' = [threads EXCEPT
                !.fetcher = [IdleFetcher EXCEPT !.pc = "170",
                                !.request = interest_over_time_widget.request]]
            /\ UNCHANGED <<call, sent, response, outcome>>
       ELSE FetcherRaises("interest_over_time", "KeyError")
    /\ UNCHANGED <<username, password, custom_useragent, tz, hl, geo, kw_list,
                   interest_over_time_widget,
                   interest_by_region_widget, related_queries_widget_list,
                   nexplore, nresolved>>

\* line 170: self.interest_over_time_widget['token']
interest_over_time_170 ==
    /\ threads.fetcher.pc = "170"
    /\ IF HasKey(interest_over_time_widget, "token")
       THEN /\ threads' = [threads EXCEPT !.fetcher.pc = "175",
                                          !.fetcher.token = interest_over_time_widget.token]
            /\ UNCHANGED <<call, sent, response, outcome>>
       ELSE FetcherRaises("interest_over_time", "KeyError")
    /\ UNCHANGED <<username, password, custom_useragent, tz, hl, geo, kw_list,
                   interest_over_time_widget,
                   interest_by_region_widget, related_queries_widget_list,
                   nexplore, nresolved>>

\* the payload built from what the fetcher read
PayloadRead(t) == [req |-> Dumps(t.request), token |-> t.token, tz |-> tz]

\* lines 171-189: the request, its response r, and the cleaning
interest_over_time_175(r) ==
    /\ threads.fetcher.pc = "175"
    /\ call' = [op |-> "interest_over_time", overlapped |-> threads.fetcher.overlapped]
    /\ sent' = <<Request(GET_METHOD, INTEREST_OVER_TIME_URL, PayloadRead(threads.fetcher))>>
    /\ response' = r
    /\ outcome' = interest_over_time_call(r).out
    /\ threads' = [threads EXCEPT !.fetcher = IdleFetcher]
    /\ UNCHANGED <<username, password, custom_useragent, tz, hl, geo, kw_list,
                   interest_over_time_widget,
                   interest_by_region_widget, related_queries_widget_list,
                   nexplore, nresolved>>

\* line 197: if self.geo == ''
interest_by_region_197(resolution) ==
    /\ threads.fetcher.pc = "idle"
    /\ threads' = [threads EXCEPT
          !.fetcher = [IdleFetcher EXCEPT !.pc = (IF geo = "" THEN "198" ELSE "200"),
                          !.resolution = resolution, !.patch = (geo = "")]]
    /\ UNCHANGED <<username, password, custom_useragent, tz, hl, geo, kw_list,
                   interest_over_time_widget,
                   interest_by_region_widget, related_queries_widget_list,
                   nexplore, nresolved, call, sent, response, outcome>>

\* line 198: self.interest_by_region_widget['request']['resolution'] = resolution
interest_by_region_198 ==
    /\ threads.fetcher.pc = "198"
    /\ IF HasKey(interest_by_region_widget, "request")
       THEN /\ interest_by_region_widget' =
                  [interest_by_region_widget EXCEPT
                      !.request = Put(@, "resolution", threads.fetcher.resolution)]
            /\ threads' = [threads EXCEPT !.fetcher.pc = "200"]
            /\ UNCHANGED <<call, sent, response, outcome>>
       ELSE /\ FetcherRaises("interest_by_region", "KeyError")
            /\ UNCHANGED interest_by_region_widget
    /\ UNCHANGED <<username, password, custom_useragent, tz, hl, geo, kw_list,
                   interest_over_time_widget,
                   related_queries_widget_list, nexplore, nresolved>>

\* line 200: self.interest_by_region_widget['request']
interest_by_region_200 ==
    /\ threads.fetcher.pc = "200"
    /\ IF HasKey(interest_by_region_widget, "request")
       THEN /\ threads' = [threads EXCEPT !.fetcher.pc = "201",
                                          !.fetcher.request = interest_by_region_widget.request]
            /\ UNCHANGED <<call, sent, response, outcome>>
       ELSE FetcherRaises("interest_by_region", "KeyError")
    /\ UNCHANGED <<username, password, custom_useragent, tz, hl, geo, kw_list,
                   interest_over_time_widget,
                   interest_by_region_widget, related_queries_widget_list,
                   nexplore, nresolved>>

\* line 201: self.interest_by_region_widget['token']
interest_by_region_201 ==
    /\ threads.fetcher.pc = "201"
    /\ IF HasKey(interest_by_region_widget, "token")
       THEN /\ threads' = [threads EXCEPT !.fetcher.pc = "205",
                                          !.fetcher.token = interest_by_region_widget.token]
            /\ UNCHANGED <<call, sent, response, outcome>>
       ELSE FetcherRaises("interest_by_region", "KeyError")
    /\ UNCHANGED <<username, password, custom_useragent, tz, hl, geo, kw_list,
                   interest_over_time_widget,
                   interest_by_region_widget, related_queries_widget_list,
                   nexplore, nresolved>>

\* lines 202-219: the request, its response r, and the cleaning
interest_by_region_205(r) ==
    /\ threads.fetcher.pc = "205"
    /\ call' = [op |-> "interest_by_region", resolution |-> threads.fetcher.resolution,
                patch |-> threads.fetcher.patch, overlapped |-> threads.fetcher.overlapped]
    /\ sent' = <<Request(GET_METHOD, INTEREST_BY_REGION_URL, PayloadRead(threads.fetcher))>>
    /\ response' = r
    /\ outcome' = interest_by_region_call(threads.fetcher.resolution, r).out
    /\ threads' = [threads EXCEPT !.fetcher = IdleFetcher]
    /\ UNCHANGED <<username, password, custom_useragent, tz, hl, geo, kw_list,
                   interest_over_time_widget,
                   interest_by_region_widget, related_queries_widget_list,
                   nexplore, nresolved>>

\* the client after one build_payload call, no other call in flight
InitRace ==
    \E g \in Geos :
        LET r == JsonResponse(TrimExplore,
                     [widgets |-> <<RaceWidget(TitleOverTime, 1, 1, g),
                                    RaceWidget(TitleRegion, 1, 2, g)>>])
            t == tokens_from(ResolverState(EmptyDict, EmptyDict, <<>>, TRUE), r)
        IN  /\ username = ""
            /\ password = ""
            /\ custom_useragent = [UserAgent |-> "PyTrends"]
            /\ tz = 360
            /\ hl = "en-US"
            /\ geo = g
            /\ kw_list = RaceQueries[1]
            /\ interest_over_time_widget = t.st.iot
            /\ interest_by_region_widget = t.st.ibr
            /\ related_queries_widget_list = t.st.rql
            /\ nexplore = 1
            /\ nresolved = 1
            /\ call = [op |-> "build_payload", kw_list |-> RaceQueries[1], geo |-> g]
            /\ sent = <<Request(GET_METHOD, GENERAL_URL,
                                TokenPayload(RaceQueries[1], 0, "today 12-m", g, ""))>>
            /\ response = r
            /\ outcome = t.out
            /\ threads = NoThreads

NextRace ==
    \/ \E g \in Geos : build_payload_116(g)
    \/ build_payload_117
    \/ \E r \in RaceExploreResponses(nexplore + 1, threads.resolver.g) : tokens_139(r)
    \/ tokens_149
    \/ tokens_151
    \/ interest_over_time_169
    \/ interest_over_time_170
    \/ \E r \in Answers(GoodTimelineDoc) : interest_over_time_175(r)
    \/ \E resolution \in Resolutions : interest_by_region_197(resolution)
    \/ interest_by_region_198
    \/ interest_by_region_200
    \/ interest_by_region_201
    \/ \E r \in Answers(GoodGeoDoc) : interest_by_region_205(r)

SpecRace == InitRace /\ [][NextRace]_vars

-----------------------------------------------------------------------------
(* Properties *)

FetcherOps == {"interest_over_time", "interest_by_region", "related_queries"}

Resolved == call.op = "build_payload" /\ IsOk(outcome)
ResolvedArray == response.json.widgets

HeldWidgets ==
    (IF DOMAIN interest_over_time_widget = {} THEN {} ELSE {interest_over_time_widget})
    \cup (IF DOMAIN interest_by_region_widget = {} THEN {} ELSE {interest_by_region_widget})
    \cup { related_queries_widget_list[i] : i \in 1..Len(related_queries_widget_list) }

RegionIndices(a) == { i \in 1..Len(a) : a[i].title \in RegionTitles }
OverTimeIndices(a) == { i \in 1..Len(a) : a[i].title = TitleOverTime }
Least(S) == CHOOSE i \in S : \A j \in S : i <= j
IsRelated(w) == w.title = TitleRelated

\* C1: when a build_payload call has returned, every widget the client holds
\* (over-time widget, region widget, related-queries list) carries a token of
\* the response of that call; none is left from an earlier response.
C1_NoStaleWidgetAfterResolve ==
    Resolved => \A w \in HeldWidgets : w.token.gen = nexplore

\* C2: when the widget array of a resolved response holds a widget titled
\* 'Interest by region' or 'Interest by subregion', the stored region widget is
\* the one at the least index with either title.
C2_FirstRegionWins ==
    (Resolved /\ RegionIndices(ResolvedArray) # {})
        => interest_by_region_widget = ResolvedArray[Least(RegionIndices(ResolvedArray))]

C2_Witness ==
    /\ Resolved
    /\ Cardinality(RegionIndices(ResolvedArray)) = 2
    /\ Least(RegionIndices(ResolvedArray)) = 2
    /\ ResolvedArray[2].title = TitleSubregion
    /\ ResolvedArray[3].title = TitleRegion
    /\ interest_by_region_widget = ResolvedArray[2]

ParameterPieces == {"; charset=utf-8", "; charset=UTF-8"}
NamesMediaType(ct, m) ==
    /\ Len(ct) >= Len(m)
    /\ SubSeq(ct, 1, Len(m)) = m
    /\ \A i \in (Len(m) + 1)..Len(ct) : ct[i] \in ParameterPieces
IsJsonish(ct) ==
    \/ NamesMediaType(ct, <<"application/", "json">>)
    \/ NamesMediaType(ct, <<"application/", "javascript">>)
    \/ NamesMediaType(ct, <<"text/", "javascript">>)

\* C4: a call that received a response whose Content-Type is none of
\* application/json, application/javascript, text/javascript ends with a
\* ResponseError that carries that response, whatever the body, and returns
\* no value.
C4_RejectsOtherContentTypes ==
    (call.op \in FetcherOps /\ sent # <<>> /\ HasKey(response.headers, "Content-Type")
       /\ ~IsJsonish(response.headers["Content-Type"]))
        => outcome = [exc |-> "ResponseError", response |-> response]

\* C5: a request to a widget-data endpoint is sent only on a client on which
\* a build_payload call has returned; before that, interest_over_time and
\* interest_by_region raise before sending anything and related_queries
\* sends nothing and returns None.
C5_NoFetchBeforeResolve ==
    /\ (\E i \in 1..Len(sent) : sent[i].url \in WidgetDataUrls) => nresolved > 0
    /\ (nresolved = 0 /\ call.op \in {"interest_over_time", "interest_by_region"})
           => (sent = <<>> /\ outcome = Raise("KeyError"))
    /\ (nresolved = 0 /\ call.op = "related_queries")
           => (sent = <<>> /\ outcome = Ok("None"))

C5_Witness ==
    /\ nresolved = 0
    /\ nexplore = 1
    /\ geo = ""
    /\ call.op = "interest_by_region"
    /\ sent = <<>>
    /\ outcome = Raise("KeyError")

\* C6: no fetcher call changes the stored Widget Set: the over-time widget,
\* the region widget and the related-queries list, request templates
\* included, are the same after the call as before it.
C6_FetchersLeaveWidgetSet ==
    [][call'.op \in FetcherOps => widgetSet' = widgetSet]_vars

\* C7: hl, tz, geo and the user-agent keep the values the constructor gave
\* them through every later call.
C7_SessionFieldsFixed ==
    [][/\ hl' = hl
       /\ tz' = tz
       /\ geo' = geo
       /\ custom_useragent' = custom_useragent]_vars

\* C8: related_queries on a related-queries list of n widgets sends min(1, n)
\* requests: the one it sends goes to the relatedsearches endpoint with the
\* request template and token of the first widget of the list, no token of a
\* later widget is sent, and a result it returns is the ranked list of the
\* response to that request.
C8_RelatedQueriesFetchesFirstOnly ==
    call.op = "related_queries" =>
        LET n == Len(related_queries_widget_list)
        IN  /\ Len(sent) = (IF n = 0 THEN 0 ELSE 1)
            /\ n > 0 => sent[1] = Request(GET_METHOD, RELATED_QUERIES_URL,
                                    [req |-> Dumps(related_queries_widget_list[1].request),
                                     token |-> related_queries_widget_list[1].token,
                                     tz |-> tz])
            /\ \A i \in 2..n : \A k \in 1..Len(sent) :
                   sent[k].payload.token # related_queries_widget_list[i].token
            /\ (n > 0 /\ IsOk(outcome)) =>
                   Len(outcome.value) = Len(response.json.default.rankedList)

C8_Witness ==
    /\ call.op = "related_queries"
    /\ Len(related_queries_widget_list) = 2
    /\ Len(sent) = 1
    /\ sent[1].payload.token = related_queries_widget_list[1].token
    /\ IsOk(outcome)

\* the decoded ranked list of the response a related_queries call received
Decoded == get_data(response, TrimWidgetData)
RankedListReceived ==
    /\ call.op = "related_queries"
    /\ sent # <<>>
    /\ IsOk(Decoded)
    /\ HasKey(Decoded.value, "default")
    /\ HasKey(Decoded.value.default, "rankedList")
RankedList == Decoded.value.default.rankedList

OneElementTopValues ==
    /\ Len(RankedList) = 2
    /\ Len(RankedList[1].rankedKeyword) > 0
    /\ \A i \in 1..Len(RankedList[1].rankedKeyword) :
        LET v == RankedList[1].rankedKeyword[i].value
        IN  v.ty = "list" /\ Len(v.l) = 1 /\ IsOk(PyInt(v.l[1]))

\* C9: when every entry of the top list (rankedList[0]) has a one-element
\* sequence as value, related_queries returns the top entries in order, each
\* with value the integer of that element and without link and formattedValue.
C9_TopValuesFromOneElementSequences ==
    (RankedListReceived /\ OneElementTopValues) =>
        /\ IsOk(outcome)
        /\ Len(outcome.value[1].rankedKeyword) = Len(RankedList[1].rankedKeyword)
        /\ \A i \in 1..Len(RankedList[1].rankedKeyword) :
            LET e == outcome.value[1].rankedKeyword[i]
            IN  /\ e.value = JInt(PyInt(RankedList[1].rankedKeyword[i].value.l[1]).value)
                /\ ~HasKey(e, "link")
                /\ ~HasKey(e, "formattedValue")

\* C10: in a result of related_queries the second ranked list has the key
\* risingKeywords and not rankedKeyword, its entries are the response's in
\* order, each with value the entry's original formattedValue and without
\* link and formattedValue, and the first ranked list keeps rankedKeyword.
C10_RisingListRenamed ==
    (RankedListReceived /\ IsOk(outcome)) =>
        /\ HasKey(outcome.value[2], "risingKeywords")
        /\ ~HasKey(outcome.value[2], "rankedKeyword")
        /\ HasKey(outcome.value[1], "rankedKeyword")
        /\ Len(outcome.value[2].risingKeywords) = Len(RankedList[2].rankedKeyword)
        /\ \A i \in 1..Len(RankedList[2].rankedKeyword) :
            LET e == outcome.value[2].risingKeywords[i]
            IN  /\ e.value = RankedList[2].rankedKeyword[i].formattedValue
                /\ ~HasKey(e, "link")
                /\ ~HasKey(e, "formattedValue")

C10_Witness ==
    /\ RankedListReceived
    /\ IsOk(outcome)
    /\ Len(RankedList[2].rankedKeyword) = 1
    /\ RankedList[2].rankedKeyword[1].value = JNull
    /\ outcome.value[2].risingKeywords[1].value = JStr(CharsRising)
    /\ Len(outcome.value[1].rankedKeyword) = 1

\* the decoded timelineData of the response an interest_over_time call received
TimelineReceived ==
    /\ call.op = "interest_over_time"
    /\ sent # <<>>
    /\ IsOk(Decoded)
    /\ HasKey(Decoded.value, "default")
    /\ HasKey(Decoded.value.default, "timelineData")
TimelineData == Decoded.value.default.timelineData

\* a record as the service sends it: time and formattedValue present, value a
\* one-element sequence, both convertible by int()
ServiceTimelineRecord(d) ==
    /\ {"time", "value", "formattedValue"} \subseteq DOMAIN d
    /\ IsOk(PyInt(d.time))
    /\ d.value.ty = "list"
    /\ Len(d.value.l) = 1
    /\ IsOk(PyInt(d.value.l[1]))

C12_FailedResolveKeepsWidgetSet ==
    [][(call'.op = "build_payload" /\ outcome'.exc \in {"ResponseError", "KeyError"})
          => /\ widgetSet' = widgetSet
             /\ kw_list' = call'.kw_list
             /\ geo' = call'.geo]_vars

C12_Witness ==
    /\ call.op = "build_payload"
    /\ outcome.exc = "ResponseError"
    /\ nexplore = 2
    /\ nresolved = 1
    /\ kw_list = <<Keywords[1], Keywords[2]>>
    /\ geo = "US"
    /\ Len(related_queries_widget_list) = 1
    /\ related_queries_widget_list[1].token.gen = 1
    /\ interest_over_time_widget # EmptyDict
    /\ interest_over_time_widget.token.gen = 1

\* the widgets stored for the role a fetcher serves
StoredFor(op) ==
    CASE op = "interest_over_time" -> {interest_over_time_widget}
      [] op = "interest_by_region" -> {interest_by_region_widget}
      [] op = "related_queries" ->
            { related_queries_widget_list[i] : i \in 1..Len(related_queries_widget_list) }
EndpointOf(op) ==
    CASE op = "interest_over_time" -> INTEREST_OVER_TIME_URL
      [] op = "interest_by_region" -> INTEREST_BY_REGION_URL
      [] op = "related_queries" -> RELATED_QUERIES_URL

\* C13: when the calls on a client follow one another, every widget-data
\* request of a fetcher goes to the endpoint of its role with the token and
\* the request template of one stored widget of that role: no request pairs
\* the token of one widget with the template of another.
C13_TokenAndTemplateOfOneWidget ==
    call.op \in FetcherOps =>
        \A k \in 1..Len(sent) :
            /\ sent[k].url = EndpointOf(call.op)
            /\ \E w \in StoredFor(call.op) :
                   /\ sent[k].payload.token = w.token
                   /\ sent[k].payload.req = Dumps(w.request)

C13_Witness ==
    /\ call.op = "related_queries"
    /\ Len(sent) = 1
    /\ nresolved = 2
    /\ HasKey(interest_over_time_widget, "token")
    /\ interest_over_time_widget.token.gen = 1
    /\ sent[1].payload.token = [gen |-> 2, idx |-> 2]
    /\ sent[1].payload.req = Dumps(RequestOf(TitleRelated, 2))

\* the query a request template repeats, and the query a token was signed for
QueryOfTemplate(payload) == payload.req.json_text_of.comparisonItem.kw_list
QueryOfToken(payload) == RaceQueries[payload.token.gen]
RaceFetch == call.op \in {"interest_over_time", "interest_by_region"} /\ sent # <<>>

\* C14: with build_payload of a new query in flight beside a fetcher of the
\* previous query, the fetcher can send the request template of the old
\* widget with the token of the new one; and it is only a fetcher call that
\* ran beside resolver steps that sends the template of one query with the
\* token of another.
C14_MixedRequestOnlyWhenOverlapped ==
    (RaceFetch /\ QueryOfTemplate(sent[1].payload) # QueryOfToken(sent[1].payload))
        => call.overlapped

C14_Witness ==
    /\ call.op = "interest_over_time"
    /\ Len(sent) = 1
    /\ call.overlapped
    /\ QueryOfTemplate(sent[1].payload) = RaceQueries[1]
    /\ sent[1].payload.token.gen = 2
    /\ interest_over_time_widget.token.gen = 2
    /\ QueryOfTemplate([req |-> Dumps(interest_over_time_widget.request)]) = RaceQueries[2]

\* the same for interest_by_region: the geography test of line 197 saw the
\* unset geography of the old query and the request carries the widget of the
\* new query, whose geography is set
C14_RegionWitness ==
    /\ call.op = "interest_by_region"
    /\ Len(sent) = 1
    /\ call.overlapped
    /\ call.patch
    /\ sent[1].payload.token.gen = 2
    /\ sent[1].payload.req.json_text_of.comparisonItem.geo = "US"
    /\ QueryOfTemplate(sent[1].payload) = RaceQueries[2]
    /\ ~HasKey(sent[1].payload.req.json_text_of, "resolution")
          \/ sent[1].payload.req.json_text_of.resolution = "REGION"

Greatest(S) == CHOOSE i \in S : \A j \in S : j <= i

\* C15: when the widget array of a resolved response holds one or several
\* widgets titled 'Interest over time', the stored over-time widget is the one
\* at the greatest index with that title (the last match wins, where for the
\* region widget the first match wins).
C15_LastOverTimeWins ==
    (Resolved /\ OverTimeIndices(ResolvedArray) # {})
        => interest_over_time_widget = ResolvedArray[Greatest(OverTimeIndices(ResolvedArray))]

C15_Witness ==
    /\ Resolved
    /\ OverTimeIndices(ResolvedArray) = {1, 3}
    /\ interest_over_time_widget = ResolvedArray[3]
    /\ interest_over_time_widget # ResolvedArray[1]
    /\ ResolvedArray[2].title = TitleRegion
    /\ interest_by_region_widget = ResolvedArray[2]

\* the request template of widget w as the explore response carried it
TemplateReceived(w) == RequestOf(w.title, w.token.idx)

\* C16: interest_by_region(resolution) sends the region widget's request
\* template with resolution set to the caller's when the geography of the
\* most recent build_payload call is '', and otherwise sends the template
\* exactly as the resolver received it, whatever the resolution argument.
C16_ResolutionPatchedIffGeoUnset ==
    (call.op = "interest_by_region" /\ sent # <<>>)
        => sent[1].payload.req =
              Dumps(IF geo = ""
                    THEN Put(TemplateReceived(interest_by_region_widget),
                             "resolution", call.resolution)
                    ELSE TemplateReceived(interest_by_region_widget))

OtherOps == {"trending_searches", "top_charts", "suggestions"}
OtherUrls == {TRENDING_SEARCHES_URL, TOP_CHARTS_URL, SUGGESTIONS_URL}

\* C17: trending_searches, top_charts and suggestions send their request
\* whether or not a resolve has run, the request carries no token and no
\* request template, and the call leaves kw_list, geo, the over-time widget,
\* the region widget and the related-queries list as they were, whether it
\* returns or raises ResponseError.
C17_OtherOpsOutsideTokenProtocol ==
    [][call'.op \in OtherOps
          => /\ Len(sent') = 1
             /\ sent'[1].url \in OtherUrls
             /\ DOMAIN sent'[1].payload \cap {"token", "req"} = {}
             /\ outcome'.exc \in {"none", "ResponseError"}
             /\ kw_list' = kw_list
             /\ geo' = geo
             /\ widgetSet' = widgetSet]_vars

C17_Witness ==
    /\ call.op = "top_charts"
    /\ nexplore = 0
    /\ interest_by_region_widget = EmptyDict
    /\ sent = <<Request(POST_METHOD, TOP_CHARTS_URL, chart_payload("201611", "actors", "US", ""))>>
    /\ outcome = Ok(GoodChartDoc.data.entityList)

\* the operations that claim C18 is about
SingleRequestOps == {"build_payload", "interest_over_time", "interest_by_region",
                     "trending_searches", "top_charts", "suggestions"}

\* C18: no call of build_payload, interest_over_time, interest_by_region,
\* trending_searches, top_charts or suggestions issues more than one request,
\* and a call that ends with ResponseError issued exactly one, the one whose
\* response the error carries.
C18_NoRetry ==
    call.op \in SingleRequestOps
        => /\ Len(sent) <= 1
           /\ outcome.exc = "ResponseError"
                 => (Len(sent) = 1 /\ outcome.response = response)

C18_Witness ==
    /\ call.op = "trending_searches"
    /\ outcome.exc = "ResponseError"
    /\ outcome.response = HtmlResponse
    /\ sent = <<Request(POST_METHOD, TRENDING_SEARCHES_URL, forms)>>

AuthUrls == {LOGIN_URL, AUTH_URL}

\* C19: construction issues one GET to the login page and then one POST to
\* the auth endpoint whose form has Email and Passwd equal to the supplied
\* credentials, whatever the page's own fields of those names and whatever
\* the auth endpoint answers; these are the client's first requests, and no
\* later call sends a request to the login page or the auth endpoint.
C19_AuthenticatesOnceAndFirst ==
    /\ call.op = "__init__" =>
          /\ Len(sent) = 2
          /\ sent[1].method = GET_METHOD /\ sent[1].url = LOGIN_URL
          /\ sent[2].method = POST_METHOD /\ sent[2].url = AUTH_URL
          /\ sent[2].payload.data.Email = username
          /\ sent[2].payload.data.Passwd = password
          /\ nexplore = 0
          /\ outcome = Ok("None")
    /\ call.op # "__init__" => \A k \in 1..Len(sent) : sent[k].url \notin AuthUrls

C19_Witness ==
    /\ call.op = "__init__"
    /\ username = "user@gmail.com"
    /\ password = "secret"
    /\ response = HtmlResponse
    /\ sent[2].payload.data =
          [Email |-> "user@gmail.com", Passwd |-> "secret", GALX |-> "new"]

====
